---- MODULE Spec2Model ----
(***************************************************************************)
(* Model of src/src/main.rs: the packed board codec, the rules, the move   *)
(* generator, the breadth-first traversal with retrograde propagation, and *)
(* the best-move selection.                                                *)
(*                                                                         *)
(* A Board is a u64.  It is represented here by its 11 base-64 digits,     *)
(* least significant first (digit i holds bits 6(i-1) .. 6(i-1)+5, the     *)
(* last digit holds bits 60..63), and the code's shifts, masks and         *)
(* comparisons are carried out on that representation.                     *)
(***************************************************************************)
EXTENDS Integers, Sequences, FiniteSets, TLC

VARIABLES visited, to_visit, pc, iter, parents, parent_is_winner,
          generated, expanded, best, scan, start, arg, res

vars == <<visited, to_visit, pc, iter, parents, parent_is_winner,
          generated, expanded, best, scan, start, arg, res>>

-----------------------------------------------------------------------------
(* Program constants                                                       *)

SMALL == 1
MEDIUM == 4
LARGE == 16
ORANGE == 1
BLUE == 2
EMPTY == 0
SQUARE_LENGTH == 6
SQUARE_MASK == 63
Reserve == 2

None == <<>>

-----------------------------------------------------------------------------
(* 64-bit unsigned arithmetic on base-64 digits                            *)

Digits == 11
TopDigitMod == 16

RECURSIVE BitAnd(_, _)
BitAnd(a, b) ==
  IF a = 0 \/ b = 0 THEN 0
  ELSE (a % 2) * (b % 2) + 2 * BitAnd(a \div 2, b \div 2)

RECURSIVE BitOr(_, _)
BitOr(a, b) ==
  IF a = 0 THEN b
  ELSE IF b = 0 THEN a
  ELSE (IF a % 2 = 1 \/ b % 2 = 1 THEN 1 ELSE 0) + 2 * BitOr(a \div 2, b \div 2)

AndTable == [a \in 0..63 |-> [b \in 0..63 |-> BitAnd(a, b)]]
OrTable == [a \in 0..63 |-> [b \in 0..63 |-> BitOr(a, b)]]

DigitLimit(i) == IF i = Digits THEN TopDigitMod ELSE 64

\* a small constant (below 2^12) as a u64
U64(n) == <<n % 64, (n \div 64) % 64, 0, 0, 0, 0, 0, 0, 0, 0, 0>>

\* digit i of x << n: bits shifted past bit 63 are lost
ShlDigit(x, n, i) ==
  ((IF i - n \div 6 >= 1 THEN (x[i - n \div 6] * (2 ^ (n % 6))) % 64 ELSE 0)
   + (IF i - n \div 6 - 1 >= 1 THEN x[i - n \div 6 - 1] \div (2 ^ (6 - (n % 6))) ELSE 0))
  % DigitLimit(i)

\* x << n; the operand is computed once
Shl(x, n) ==
  CHOOSE result \in {<<>> \o [i \in 1..Digits |-> ShlDigit(a, n, i)] : a \in {x}} : TRUE

\* digit i of x >> n
ShrDigit(x, n, i) ==
  (IF i + n \div 6 <= Digits THEN x[i + n \div 6] \div (2 ^ (n % 6)) ELSE 0)
  + (IF i + n \div 6 + 1 <= Digits
     THEN (x[i + n \div 6 + 1] * (2 ^ (6 - (n % 6)))) % 64 ELSE 0)

\* x >> n
Shr(x, n) ==
  CHOOSE result \in {<<>> \o [i \in 1..Digits |-> ShrDigit(a, n, i)] : a \in {x}} : TRUE

And64(x, y) ==
  CHOOSE result \in {<<>> \o [i \in 1..Digits |-> AndTable[a[i]][b[i]]] :
                       a \in {x}, b \in {y}} : TRUE

Or64(x, y) ==
  CHOOSE result \in {<<>> \o [i \in 1..Digits |-> OrTable[a[i]][b[i]]] :
                       a \in {x}, b \in {y}} : TRUE

Not64(x) ==
  CHOOSE result \in {<<>> \o [i \in 1..Digits |-> DigitLimit(i) - 1 - a[i]] :
                       a \in {x}} : TRUE

\* x < y as unsigned 64-bit integers: the highest digit that differs decides
Less64(x, y) ==
  \E a \in {x}, b \in {y} :
    \E i \in 1..Digits : a[i] < b[i] /\ \A j \in (i + 1)..Digits : a[j] = b[j]

\* x as u8
AsU8(x) == CHOOSE result \in {a[1] + 64 * (a[2] % 4) : a \in {x}} : TRUE

Zero64 == U64(0)

-----------------------------------------------------------------------------
(* State codec                                                             *)

get_board_square(board, position) ==
  AsU8(And64(Shr(board, position * SQUARE_LENGTH), U64(SQUARE_MASK)))

\* a write that does not clear the square first
set_board_square_over(board, position, square) ==
  Or64(board, Shl(U64(square), position * SQUARE_LENGTH))

set_board_square(board, position, square) ==
  Or64(And64(board, Not64(Shl(U64(SQUARE_MASK), position * SQUARE_LENGTH))),
       Shl(U64(square), position * SQUARE_LENGTH))

get_board_player(board) == AsU8(Shr(board, SQUARE_LENGTH * 9))

set_board_player(board, color) ==
  Or64(And64(board, Not64(Shl(U64(3), SQUARE_LENGTH * 9))),
       Shl(U64(color), SQUARE_LENGTH * 9))

-----------------------------------------------------------------------------
(* Rule engine                                                             *)

get_size_shift(size) ==
  CASE size = SMALL -> 0
    [] size = MEDIUM -> 2
    [] size = LARGE -> 4

get_figure_size(figure) ==
  CASE figure \in {1, 2} -> SMALL
    [] figure \in {4, 8} -> MEDIUM
    [] figure \in {16, 32} -> LARGE

get_opponent(player) ==
  CASE player = ORANGE -> BLUE
    [] player = BLUE -> ORANGE

get_color(square, size) == BitAnd(square \div (2 ^ get_size_shift(size)), 3)

\* the legality test that looks at the queried slot only
can_play_at_slot(square, size) ==
  BitAnd(square \div (2 ^ get_size_shift(size)), 3) = EMPTY

can_play_at(square, size) == (square \div (2 ^ get_size_shift(size))) = EMPTY

get_square_figure(square, size) ==
  BitAnd(square \div (2 ^ get_size_shift(size)), 3) * (2 ^ get_size_shift(size))

get_top_figure(square) ==
  IF get_square_figure(square, LARGE) # EMPTY THEN get_square_figure(square, LARGE)
  ELSE IF get_square_figure(square, MEDIUM) # EMPTY THEN get_square_figure(square, MEDIUM)
  ELSE IF get_square_figure(square, SMALL) # EMPTY THEN get_square_figure(square, SMALL)
  ELSE EMPTY

\* the loop of get_top_color over the sizes of one square
TopColor(square) ==
  IF get_color(square, LARGE) # EMPTY THEN get_color(square, LARGE)
  ELSE IF get_color(square, MEDIUM) # EMPTY THEN get_color(square, MEDIUM)
  ELSE IF get_color(square, SMALL) # EMPTY THEN get_color(square, SMALL)
  ELSE EMPTY

get_top_color(board, position) ==
  CHOOSE color \in {TopColor(square) : square \in {get_board_square(board, position)}} :
    TRUE

\* the result of is_triple for the three top colours
SameColor(col1, col2, col3) == IF col1 = col2 /\ col2 = col3 THEN col1 ELSE EMPTY

is_triple(board, positions) ==
  CHOOSE color \in {SameColor(col1, col2, col3) :
                      col1 \in {get_top_color(board, positions[1])},
                      col2 \in {get_top_color(board, positions[2])},
                      col3 \in {get_top_color(board, positions[3])}} : TRUE

triples ==
  << <<1, 2, 3>>, <<8, 0, 4>>, <<7, 6, 5>>,
     <<1, 8, 7>>, <<2, 0, 6>>, <<3, 4, 5>>,
     <<1, 0, 5>>, <<3, 0, 7>> >>

RECURSIVE WinnerFrom(_, _)

\* the loop of get_winner with the value of is_triple for triple i
WinnerAt(board, i, winner) == IF winner # EMPTY THEN winner ELSE WinnerFrom(board, i + 1)

\* the loop of get_winner from triple i on
WinnerFrom(board, i) ==
  IF i > Len(triples) THEN EMPTY
  ELSE CHOOSE color \in {WinnerAt(board, i, winner) :
                           winner \in {is_triple(board, triples[i])}} : TRUE

\* the colour of the first complete triple in the order of triples, or EMPTY
get_winner(board) == WinnerFrom(board, 1)

\* the number of squares whose slot of the given size holds a bit of the mover
UsedCount(board, playing, size) ==
  Cardinality({position \in 0..8 :
                 BitAnd(get_board_square(board, position), playing * size) # 0})

\* a reserve that never runs out
Remaining_all(board, playing) == <<SMALL, MEDIUM, LARGE>>

\* get_board_remaining for the mover it read from the board
Remaining(board, playing) ==
  (IF Reserve - UsedCount(board, playing, SMALL) > 0 THEN <<SMALL>> ELSE <<>>)
  \o (IF Reserve - UsedCount(board, playing, MEDIUM) > 0 THEN <<MEDIUM>> ELSE <<>>)
  \o (IF Reserve - UsedCount(board, playing, LARGE) > 0 THEN <<LARGE>> ELSE <<>>)

get_board_remaining(board) ==
  CHOOSE remaining \in {Remaining(board, playing) :
                          playing \in {get_board_player(board)}} : TRUE

-----------------------------------------------------------------------------
(* Canonicalizer                                                           *)

\* a rotation that leaves what the shift moves into square 7
rotate_board_unmasked(board) ==
  set_board_player(
    Or64(Or64(And64(Shr(board, SQUARE_LENGTH * 2), Not64(U64(SQUARE_MASK))),
              Shl(And64(board, Or64(Shl(U64(SQUARE_MASK), SQUARE_LENGTH),
                                    Shl(U64(SQUARE_MASK), SQUARE_LENGTH * 2))),
                  SQUARE_LENGTH * 6)),
         And64(board, U64(SQUARE_MASK))),
    get_board_player(board))

\* the squares of board turned by a quarter, with the player bits of board
Turned(board) ==
  set_board_player(
    Or64(Or64(And64(And64(Shr(board, SQUARE_LENGTH * 2), Not64(U64(SQUARE_MASK))),
                    Not64(Shl(U64(SQUARE_MASK), SQUARE_LENGTH * 7))),
              Shl(And64(board, Or64(Shl(U64(SQUARE_MASK), SQUARE_LENGTH),
                                    Shl(U64(SQUARE_MASK), SQUARE_LENGTH * 2))),
                  SQUARE_LENGTH * 6)),
         And64(board, U64(SQUARE_MASK))),
    get_board_player(board))

rotate_board(board) == CHOOSE rotated \in {Turned(bits) : bits \in {board}} : TRUE

RECURSIVE NormalizeFrom(_, _, _)

\* one pass of the loop of normalize_board with the board it just rotated
NormalizeStep(min_board, rotated_board, n) ==
  IF Less64(rotated_board, min_board)
  THEN NormalizeFrom(rotated_board, rotated_board, n - 1)
  ELSE NormalizeFrom(min_board, rotated_board, n - 1)

\* the last n passes of the loop of normalize_board
NormalizeFrom(min_board, rotated_board, n) ==
  IF n = 0 THEN min_board
  ELSE CHOOSE min \in {NormalizeStep(min_board, rotated, n) :
                         rotated \in {rotate_board(rotated_board)}} : TRUE

\* a loop that rotates twice only
normalize_board_twice(board) == NormalizeFrom(board, board, 2)

normalize_board(board) ==
  CHOOSE min \in {NormalizeFrom(bits, bits, 3) : bits \in {board}} : TRUE

-----------------------------------------------------------------------------
(* Move generator                                                          *)

\* a parent reference that names a rotation of the board, not the board
Some_rotated(board) == <<rotate_board(board)>>

Some(board) == <<board>>

\* the last position of the loops over 0..9
LastPosition == 8

\* the entry pushed for new_board as the move left it, not normalized
Item_unnormalized(board, new_board, opponent, pos, target_pos, size) ==
  [board |-> set_board_player(new_board, opponent),
   parent |-> Some(board), pos |-> pos, target_pos |-> target_pos, size |-> size]

\* the entry pushed for new_board, with the move that made it
Item(board, new_board, opponent, pos, target_pos, size) ==
  [board |-> set_board_player(normalize_board(new_board), opponent),
   parent |-> Some(board), pos |-> pos, target_pos |-> target_pos, size |-> size]

\* the entry add_new_items pushes for pos, whose square it read
NewItem(board, playing, opponent, size, pos, square) ==
  IF ~can_play_at(square, size) THEN <<>>
  ELSE <<Item(board, set_board_square(board, pos, square + playing * size),
              opponent, -1, pos, size)>>

RECURSIVE NewItemsAt(_, _, _, _, _)
\* the entries add_new_items pushes for one size, from pos on
NewItemsAt(board, playing, opponent, size, pos) ==
  IF pos > LastPosition THEN <<>>
  ELSE (CHOOSE items \in {NewItem(board, playing, opponent, size, pos, square) :
                            square \in {get_board_square(board, pos)}} : TRUE)
       \o NewItemsAt(board, playing, opponent, size, pos + 1)

RECURSIVE NewItemsFrom(_, _, _, _, _)
NewItemsFrom(board, playing, opponent, remaining, i) ==
  IF i > Len(remaining) THEN <<>>
  ELSE NewItemsAt(board, playing, opponent, remaining[i], 0)
       \o NewItemsFrom(board, playing, opponent, remaining, i + 1)

\* the entries add_new_items pushes, in order; it returns their number
add_new_items(board, playing, opponent) ==
  NewItemsFrom(board, playing, opponent, get_board_remaining(board), 1)

\* the entry add_moved_items pushes for target_pos, whose square it read
MovedItem(board, board_without_figure, opponent, pos, figure, size, target_pos, square) ==
  IF target_pos = pos \/ ~can_play_at(square, size) THEN <<>>
  ELSE <<Item(board, set_board_square(board_without_figure, target_pos, square + figure),
              opponent, pos, target_pos, size)>>

RECURSIVE MovedItemsTo(_, _, _, _, _, _, _)
\* the entries add_moved_items pushes for the figure lifted from pos,
\* from target_pos on
MovedItemsTo(board, board_without_figure, opponent, pos, figure, size, target_pos) ==
  IF target_pos > LastPosition THEN <<>>
  ELSE (CHOOSE items \in
               {MovedItem(board, board_without_figure, opponent, pos, figure, size,
                          target_pos, square) :
                  square \in {get_board_square(board_without_figure, target_pos)}} : TRUE)
       \o MovedItemsTo(board, board_without_figure, opponent, pos, figure, size,
                       target_pos + 1)

\* add_moved_items without the look under the figure it lifts
UncoversTriple_never(board_without_figure) == FALSE

\* lifting the figure leaves a board with a complete triple: the figure stays
UncoversTriple(board_without_figure) == get_winner(board_without_figure) # EMPTY

\* the entries add_moved_items pushes for pos once the figure is lifted
Lifted(board, opponent, pos, figure, size, board_without_figure) ==
  IF UncoversTriple(board_without_figure) THEN <<>>
  ELSE MovedItemsTo(board, board_without_figure, opponent, pos, figure, size, 0)

\* the entries add_moved_items pushes for pos, whose square and top figure it read
LiftFigure(board, opponent, pos, square, figure) ==
  CHOOSE items \in
    {Lifted(board, opponent, pos, figure, get_figure_size(figure), board_without_figure) :
       board_without_figure \in {set_board_square(board, pos, square - figure)}} : TRUE

\* the entries add_moved_items pushes for pos, whose square it read
LiftTop(board, opponent, pos, square) ==
  LiftFigure(board, opponent, pos, square, get_top_figure(square))

\* the entries add_moved_items pushes for pos
MovedItemsFrom(board, playing, opponent, pos) ==
  IF get_top_color(board, pos) # playing THEN <<>>
  ELSE CHOOSE items \in {LiftTop(board, opponent, pos, square) :
                           square \in {get_board_square(board, pos)}} : TRUE

RECURSIVE MovedItemsOver(_, _, _, _)
\* the entries add_moved_items pushes from pos on
MovedItemsOver(board, playing, opponent, pos) ==
  IF pos > LastPosition THEN <<>>
  ELSE MovedItemsFrom(board, playing, opponent, pos)
       \o MovedItemsOver(board, playing, opponent, pos + 1)

\* the entries add_moved_items pushes, in order; it returns their number
add_moved_items(board, playing, opponent) == MovedItemsOver(board, playing, opponent, 0)

-----------------------------------------------------------------------------
(* Outcome propagator                                                      *)

\* a graph record (parents, num_of_children, outcome)
Record(ps, n, o) == [parents |-> ps, children |-> n, outcome |-> o]

\* a parent that is left alone without the "already knows how to win" test
AlreadyWins_never(state) == FALSE

\* "parent already knows how to win": the wave leaves the record alone
AlreadyWins(state) == state.outcome = -1

\* a wave that adds two to the counter of a parent in the losing role
NewOutcome_twice(state, parent_is_winner_) ==
  IF parent_is_winner_ THEN -1 ELSE state.outcome + 2

\* the outcome a parent gets in a wave
NewOutcome(state, parent_is_winner_) ==
  IF parent_is_winner_ THEN -1 ELSE state.outcome + 1

\* every modified record hands its parents to the next wave
JoinsNextWave_always(new_state) == TRUE

\* whether the parents of a record just modified join the next wave
JoinsNextWave(new_state) ==
  new_state.outcome = -1 \/ new_state.children = new_state.outcome

RECURSIVE ModifyFrom(_, _, _, _, _)

\* the rest of the loop of modify_parents once parent i got new_state
ModifyWith(ps, i, parent_is_winner_, vis, next_parents, new_state) ==
  CHOOSE result \in
    {ModifyFrom(ps, i + 1, parent_is_winner_, new_vis, new_next) :
       new_vis \in {[vis EXCEPT ![ps[i]] = new_state]},
       new_next \in {IF JoinsNextWave(new_state)
                     THEN next_parents \o new_state.parents
                     ELSE next_parents}} : TRUE

\* the loop of modify_parents from parent i on; ok is FALSE when it panics
ModifyFrom(ps, i, parent_is_winner_, vis, next_parents) ==
  IF i > Len(ps) THEN [visited |-> vis, next_parents |-> next_parents, ok |-> TRUE]
  ELSE IF ps[i] \notin DOMAIN vis
  THEN [visited |-> vis, next_parents |-> next_parents, ok |-> FALSE]
  ELSE IF AlreadyWins(vis[ps[i]])
  THEN ModifyFrom(ps, i + 1, parent_is_winner_, vis, next_parents)
  ELSE CHOOSE result \in
         {ModifyWith(ps, i, parent_is_winner_, vis, next_parents, new_state) :
            new_state \in {Record(vis[ps[i]].parents, vis[ps[i]].children,
                                  NewOutcome(vis[ps[i]], parent_is_winner_))}} : TRUE

\* a wave that hands the states it was given to the next wave
modify_parents_echo(ps, parent_is_winner_, vis) ==
  [visited |-> vis, next_parents |-> ps, ok |-> TRUE]

modify_parents(ps, parent_is_winner_, vis) ==
  ModifyFrom(ps, 1, parent_is_winner_, vis, <<>>)

-----------------------------------------------------------------------------
(* Move selector                                                           *)

\* the comparator with the preferences the other way round
is_first_state_better_reversed(first, second) ==
  IF first[1] = 0 THEN FALSE
  ELSE IF second[1] = 0 THEN TRUE
  ELSE IF first[2] = -1 THEN TRUE
  ELSE IF second[2] = -1 THEN FALSE
  ELSE IF first[2] < second[2] THEN TRUE
  ELSE IF first[2] > second[2] THEN FALSE
  ELSE first[1] < second[1]

is_first_state_better(first, second) ==
  IF second[1] = 0 THEN FALSE
  ELSE IF first[1] = 0 THEN TRUE
  ELSE IF second[2] = -1 THEN TRUE
  ELSE IF first[2] = -1 THEN FALSE
  ELSE IF first[2] > second[2] THEN TRUE
  ELSE IF first[2] < second[2] THEN FALSE
  ELSE first[1] < second[1]

Contains(seq, x) == \E i \in 1..Len(seq) : seq[i] = x

\* the records find_best_move looks at: those whose parents contain board
Candidates(board, vis) == {b \in DOMAIN vis : Contains(vis[b].parents, board)}

\* one iteration of the loop of find_best_move on a record that contains board
BestAfter(best_, visited_board, state) ==
  LET is_better == IF best_ = None THEN TRUE
                   ELSE is_first_state_better(<<state.children, state.outcome>>,
                                              <<best_[2], best_[3]>>)
  IN IF is_better THEN <<visited_board, state.children, state.outcome>> ELSE best_

-----------------------------------------------------------------------------
(* Start states                                                            *)

RECURSIVE BoardFrom(_, _, _)
BoardFrom(board, squares, i) ==
  IF i > Len(squares) THEN board
  ELSE BoardFrom(set_board_square(board, squares[i][1], squares[i][2]), squares, i + 1)

\* a board built as get_initial_board builds its own: squares, mover, normalize
MakeBoard(squares, player) ==
  normalize_board(set_board_player(BoardFrom(Zero64, squares, 1), player))

get_initial_board ==
  MakeBoard(<< <<0, LARGE * ORANGE>>,
               <<5, SMALL * BLUE + MEDIUM * ORANGE + LARGE * BLUE>>,
               <<2, SMALL * ORANGE + MEDIUM * BLUE>>,
               <<8, LARGE * BLUE>>,
               <<4, MEDIUM * ORANGE>>,
               <<7, LARGE * ORANGE>>,
               <<3, MEDIUM * BLUE>> >>, ORANGE)

StartA ==
  MakeBoard(<< <<1, LARGE * ORANGE + MEDIUM * BLUE>>,
               <<2, LARGE * ORANGE + MEDIUM * BLUE>>,
               <<3, LARGE * BLUE + MEDIUM * ORANGE>>,
               <<0, LARGE * BLUE + MEDIUM * ORANGE>>,
               <<4, SMALL * ORANGE>>,
               <<7, SMALL * ORANGE>>,
               <<6, SMALL * BLUE>>,
               <<5, SMALL * BLUE>> >>, ORANGE)

\* a start whose traversal meets Loss records and waves of three steps
StartB ==
  MakeBoard(<< <<0, LARGE * ORANGE + SMALL * BLUE>>,
               <<1, LARGE * BLUE + SMALL * ORANGE>>,
               <<2, LARGE * ORANGE + MEDIUM * BLUE>>,
               <<3, MEDIUM * BLUE>>,
               <<4, MEDIUM * ORANGE>>,
               <<5, SMALL * BLUE>>,
               <<6, LARGE * BLUE + SMALL * ORANGE>>,
               <<7, MEDIUM * ORANGE>> >>, ORANGE)

\* a start in which the mover has a placement that completes a triple
StartW ==
  MakeBoard(<< <<1, LARGE * ORANGE + MEDIUM * BLUE>>,
               <<2, MEDIUM * ORANGE + SMALL * BLUE>>,
               <<3, LARGE * BLUE + MEDIUM * ORANGE + SMALL * BLUE>>,
               <<5, MEDIUM * BLUE + SMALL * ORANGE>>,
               <<6, SMALL * ORANGE>>,
               <<7, LARGE * ORANGE>> >>, BLUE)

\* a start whose traversal meets states in which the mover has no move
StartS ==
  MakeBoard(<< <<0, MEDIUM * ORANGE + SMALL * ORANGE>>,
               <<1, LARGE * BLUE + SMALL * ORANGE>>,
               <<2, LARGE * ORANGE + SMALL * BLUE>>,
               <<3, LARGE * BLUE + MEDIUM * ORANGE>>,
               <<4, MEDIUM * BLUE>>,
               <<5, LARGE * ORANGE + MEDIUM * BLUE>>,
               <<7, SMALL * BLUE>> >>, ORANGE)

\* a start whose traversal re-dequeues a terminal state from a later parent
StartL ==
  MakeBoard(<< <<0, MEDIUM * BLUE>>,
               <<1, MEDIUM * BLUE>>,
               <<2, MEDIUM * ORANGE + SMALL * ORANGE>>,
               <<3, LARGE * BLUE + SMALL * ORANGE>>,
               <<4, MEDIUM * ORANGE>>,
               <<5, LARGE * ORANGE + SMALL * BLUE>>,
               <<6, LARGE * BLUE>>,
               <<7, LARGE * ORANGE + SMALL * BLUE>> >>, ORANGE)
\* a start whose traversal records a parent of a state that is already Win
StartP ==
  MakeBoard(<< <<0, LARGE * BLUE + SMALL * ORANGE>>,
               <<2, LARGE * ORANGE + SMALL * BLUE>>,
               <<4, LARGE * BLUE + MEDIUM * BLUE>>,
               <<5, MEDIUM * BLUE + SMALL * ORANGE>>,
               <<6, MEDIUM * ORANGE>>,
               <<7, LARGE * ORANGE + SMALL * BLUE>> >>, BLUE)

\* a start that its half turn maps onto itself: pairs of its moves lead to the
\* same successor
StartD ==
  MakeBoard(<< <<0, LARGE * ORANGE + SMALL * BLUE>>,
               <<1, LARGE * BLUE + MEDIUM * ORANGE + SMALL * ORANGE>>,
               <<2, MEDIUM * BLUE>>,
               <<5, LARGE * BLUE + MEDIUM * ORANGE + SMALL * ORANGE>>,
               <<6, MEDIUM * BLUE>> >>, ORANGE)

\* a start whose traversal records four states that are predecessors of one
\* another in a ring before a wave reaches one of them
StartC ==
  MakeBoard(<< <<1, LARGE * ORANGE + SMALL * BLUE>>,
               <<2, LARGE * BLUE>>,
               <<3, MEDIUM * BLUE + SMALL * ORANGE>>,
               <<4, MEDIUM * BLUE + SMALL * ORANGE>>,
               <<5, LARGE * ORANGE + SMALL * BLUE>>,
               <<6, LARGE * BLUE>>,
               <<7, MEDIUM * ORANGE>> >>, ORANGE)

\* a start with two moves, to one successor that ends the game: the traversal
\* empties its queue after three iterations, one of them for a recorded state
StartE ==
  MakeBoard(<< <<1, LARGE * ORANGE + SMALL * BLUE>>,
               <<2, LARGE * BLUE + SMALL * ORANGE>>,
               <<3, MEDIUM * BLUE>>,
               <<4, MEDIUM * ORANGE>>,
               <<5, LARGE * ORANGE + SMALL * BLUE>>,
               <<6, LARGE * BLUE + SMALL * ORANGE>>,
               <<7, MEDIUM * BLUE>>,
               <<8, MEDIUM * ORANGE>> >>, ORANGE)

\* a start whose traversal empties its queue after four iterations, one of
\* them for a recorded state
StartF ==
  MakeBoard(<< <<1, MEDIUM * ORANGE>>,
               <<2, LARGE * ORANGE>>,
               <<3, LARGE * BLUE + SMALL * ORANGE>>,
               <<4, MEDIUM * BLUE>>,
               <<5, MEDIUM * ORANGE>>,
               <<6, LARGE * ORANGE>>,
               <<7, LARGE * BLUE + SMALL * ORANGE>>,
               <<8, MEDIUM * BLUE>> >>, BLUE)

\* a start with nine moves, all of which end the game
StartG ==
  MakeBoard(<< <<1, LARGE * BLUE + SMALL * ORANGE>>,
               <<2, MEDIUM * ORANGE>>,
               <<3, MEDIUM * ORANGE>>,
               <<4, LARGE * ORANGE>>,
               <<5, LARGE * BLUE + SMALL * ORANGE>>,
               <<7, MEDIUM * BLUE + SMALL * BLUE>> >>, BLUE)

\* a start whose traversal empties its queue after seven iterations
StartH ==
  MakeBoard(<< <<0, LARGE * ORANGE + MEDIUM * BLUE + SMALL * BLUE>>,
               <<1, MEDIUM * ORANGE>>,
               <<2, LARGE * BLUE + SMALL * ORANGE>>,
               <<4, MEDIUM * ORANGE>>,
               <<5, LARGE * BLUE + SMALL * ORANGE>>,
               <<6, SMALL * BLUE>>,
               <<7, LARGE * ORANGE + MEDIUM * BLUE>> >>, ORANGE)

\* the starts whose traversal empties its queue within a few iterations
DrainStarts == {StartA, StartE, StartF, StartG, StartH}

StartBoards ==
  {get_initial_board, StartA, StartB, StartW, StartS, StartL, StartP, StartD, StartC}

-----------------------------------------------------------------------------
(* Traversal (main)                                                        *)

\* the number of iterations of the loop of main (100_000_000 in the program)
MaxIter == 80

\* the same for the two starts whose traversal has to go deep before a state
\* is dequeued again from a later parent
MaxIterDeep == 280

\* the same for the start with fourteen successors: find_best_move is followed
\* through every order of the map, which doubles the states with each candidate
MaxIterInitial == 12

\* the number of iterations main allows its loop
ProgramCap == 100000000

Cap ==
  IF start = get_initial_board THEN MaxIterInitial
  ELSE IF start \in {StartL, StartP, StartC} THEN MaxIterDeep
  ELSE IF start \in DrainStarts THEN ProgramCap
  ELSE MaxIter

EmptyMap == [b \in {} |-> 0]

\* a table that drops what is inserted
Insert_nothing(map, key, value) == map

Insert(map, key, value) == [b \in DOMAIN map \cup {key} |-> IF b = key THEN value ELSE map[b]]

\* a conversion that drops the parent of a queue entry
OptionToVec_none(parent) == <<>>

OptionToVec(parent) == IF parent = None THEN <<>> ELSE <<parent[1]>>

\* the state of main when its loop begins, for a start of the given set
InitFrom(starts) ==
  /\ start \in starts
  /\ visited = EmptyMap
  /\ to_visit = << <<start, None>> >>
  /\ pc = "loop"
  /\ iter = 0
  /\ parents = <<>>
  /\ parent_is_winner = TRUE
  /\ generated = EmptyMap
  /\ expanded = None
  /\ best = None
  /\ scan = {}
  /\ arg = None
  /\ res = None

Init == InitFrom(StartBoards)

Head1 == to_visit[1][1]
HeadParent == to_visit[1][2]

\* the loop ran out of iterations
CapReached ==
  /\ pc = "loop"
  /\ iter = Cap
  /\ pc' = "select"
  /\ scan' = Candidates(start, visited)
  /\ UNCHANGED <<visited, to_visit, iter, parents, parent_is_winner, generated,
                 expanded, best, start, arg, res>>

\* pop_front returned None: "all is done"
AllDone ==
  /\ pc = "loop"
  /\ iter < Cap
  /\ to_visit = <<>>
  /\ pc' = "select"
  /\ scan' = Candidates(start, visited)
  /\ UNCHANGED <<visited, to_visit, iter, parents, parent_is_winner, generated,
                 expanded, best, start, arg, res>>

\* the dequeued state already has a record: add the parent
AlreadyVisited ==
  /\ pc = "loop"
  /\ iter < Cap
  /\ to_visit # <<>>
  /\ Head1 \in DOMAIN visited
  /\ LET state == visited[Head1]
         new_parents == state.parents \o OptionToVec(HeadParent)
     IN visited' = [visited EXCEPT ![Head1] = Record(new_parents, state.children, state.outcome)]
  /\ to_visit' = Tail(to_visit)
  /\ iter' = iter + 1
  /\ UNCHANGED <<pc, parents, parent_is_winner, generated, expanded, best, scan,
                 start, arg, res>>

\* the dequeued state is new and has a winner: record it and start the waves
Terminal ==
  /\ pc = "loop"
  /\ iter < Cap
  /\ to_visit # <<>>
  /\ Head1 \notin DOMAIN visited
  /\ get_winner(Head1) # EMPTY
  /\ to_visit' = Tail(to_visit)
  /\ iter' = iter + 1
  /\ IF get_winner(Head1) = get_board_player(Head1)
     THEN /\ pc' = "panic"
          /\ UNCHANGED <<visited, parents, parent_is_winner>>
     ELSE /\ visited' = Insert(visited, Head1, Record(OptionToVec(HeadParent), 0, 0))
          /\ parents' = OptionToVec(HeadParent)
          /\ parent_is_winner' = TRUE
          /\ pc' = IF OptionToVec(HeadParent) = <<>> THEN "loop" ELSE "propagate"
  /\ UNCHANGED <<generated, expanded, best, scan, start, arg, res>>

\* one wave: parents = modify_parents(parents, parent_is_winner, visited)
Propagate ==
  /\ pc = "propagate"
  /\ \E r \in {modify_parents(parents, parent_is_winner, visited)} :
        /\ visited' = r.visited
        /\ parents' = r.next_parents
        /\ pc' = IF ~r.ok THEN "panic"
                 ELSE IF r.next_parents = <<>> THEN "loop" ELSE "propagate"
  /\ parent_is_winner' = ~parent_is_winner
  /\ UNCHANGED <<to_visit, iter, generated, expanded, best, scan, start, arg, res>>

\* the entries pushed by add_new_items and then by add_moved_items for board
Pushed(board, playing, opponent) ==
  [placed |-> add_new_items(board, playing, opponent),
   moved |-> add_moved_items(board, playing, opponent)]

\* the entries pushed for board, whose mover main read
PushedBy(board, playing) == Pushed(board, playing, get_opponent(playing))

Successors(board) == PushedBy(board, get_board_player(board))

\* the dequeued state is new and has no winner: enqueue its successors
Expand ==
  /\ pc = "loop"
  /\ iter < Cap
  /\ to_visit # <<>>
  /\ Head1 \notin DOMAIN visited
  /\ get_winner(Head1) = EMPTY
  /\ \E pushed \in {Successors(Head1)} :
       LET board == Head1
           items == pushed.placed \o pushed.moved
           num_of_children == Len(pushed.placed) + Len(pushed.moved)
       IN /\ to_visit' = Tail(to_visit)
                \o [i \in 1..Len(items) |-> <<items[i].board, items[i].parent>>]
          /\ visited' = Insert(visited, board,
                               Record(OptionToVec(HeadParent), num_of_children, 0))
          /\ generated' = Insert(generated, board,
                                 [i \in 1..Len(items) |-> items[i].board])
          /\ expanded' = [board |-> board, placed |-> pushed.placed,
                          moved |-> pushed.moved, num_of_children |-> num_of_children]
  /\ iter' = iter + 1
  /\ UNCHANGED <<pc, parents, parent_is_winner, best, scan, start, arg, res>>

\* find_best_move(initial_board, &visited): the map is iterated in any order
FindBestStep ==
  /\ pc = "select"
  /\ \E visited_board \in scan :
       /\ best' = BestAfter(best, visited_board, visited[visited_board])
       /\ scan' = scan \ {visited_board}
  /\ UNCHANGED <<visited, to_visit, pc, iter, parents, parent_is_winner, generated,
                 expanded, start, arg, res>>

FindBestDone ==
  /\ pc = "select"
  /\ scan = {}
  /\ pc' = "done"
  /\ UNCHANGED <<visited, to_visit, iter, parents, parent_is_winner, generated,
                 expanded, best, scan, start, arg, res>>

Next ==
  \/ CapReached
  \/ AllDone
  \/ AlreadyVisited
  \/ Terminal
  \/ Propagate
  \/ Expand
  \/ FindBestStep
  \/ FindBestDone

Spec == Init /\ [][Next]_vars

\* the traversals that empty their queue, run under the cap of the program;
\* main runs its statements one after the other until it returns
InitDrain == InitFrom(DrainStarts)

NextDrain ==
  \/ AllDone
  \/ AlreadyVisited
  \/ Terminal
  \/ Propagate
  \/ Expand
  \/ FindBestStep
  \/ FindBestDone

SpecDrain == InitDrain /\ [][NextDrain]_vars /\ WF_vars(NextDrain)

\* the while loop of main runs its next wave as long as parents is not empty
SpecWaves == Init /\ [][Next]_vars /\ WF_vars(Propagate)

-----------------------------------------------------------------------------
(* Pure functions applied to every input of a bounded set                  *)

TraversalIdle ==
  /\ visited = EmptyMap
  /\ to_visit = <<>>
  /\ iter = 0
  /\ parents = <<>>
  /\ parent_is_winner = TRUE
  /\ generated = EmptyMap
  /\ expanded = None
  /\ best = None
  /\ scan = {}
  /\ start = Zero64

Sizes == {SMALL, MEDIUM, LARGE}
Squares == 0..63

InitPlay ==
  /\ TraversalIdle
  /\ pc = "can_play_at"
  /\ arg \in [square : Squares, size : Sizes]
  /\ res = None

ApplyCanPlay ==
  /\ pc = "can_play_at"
  /\ res = None
  /\ res' = <<can_play_at(arg.square, arg.size)>>
  /\ UNCHANGED <<visited, to_visit, pc, iter, parents, parent_is_winner, generated,
                 expanded, best, scan, start, arg>>

NextPlay == ApplyCanPlay

SpecPlay == InitPlay /\ [][NextPlay]_vars

MaxChildren == 4

\* (num_of_children, outcome) pairs a record can hold
StatePairs ==
  {p \in (0..MaxChildren) \X (-1..MaxChildren) : p[2] <= p[1] /\ (p[1] = 0 => p[2] = 0)}

InitBetter ==
  /\ TraversalIdle
  /\ pc = "is_first_state_better"
  /\ arg \in [first : StatePairs, second : StatePairs]
  /\ res = None

ApplyBetter ==
  /\ pc = "is_first_state_better"
  /\ res = None
  /\ res' = <<is_first_state_better(arg.first, arg.second)>>
  /\ UNCHANGED <<visited, to_visit, pc, iter, parents, parent_is_winner, generated,
                 expanded, best, scan, start, arg>>

NextBetter == ApplyBetter

SpecBetter == InitBetter /\ [][NextBetter]_vars

-----------------------------------------------------------------------------
(* The canonicalizer and the codec applied to every board of a bounded set *)

\* the contents a square is given besides empty: two stacks of three
\* figures that together use every bit of a square, and all six bits
SquareFills == {SMALL * BLUE + MEDIUM * BLUE + LARGE * ORANGE,
                SMALL * ORANGE + MEDIUM * ORANGE + LARGE * BLUE,
                SQUARE_MASK}

\* two rows of nine different squares
MixedSquares ==
  {<<1, 2, 4, 8, 16, 32, 21, 42, 63>>, <<38, 0, 25, 0, 6, 17, 0, 9, 36>>}

\* nine squares, each empty or holding the same contents, and the rows of
\* different squares
CanonSquares ==
  UNION {[1..9 -> {EMPTY, value}] : value \in SquareFills} \cup MixedSquares

RECURSIVE BoardOf(_, _, _)
\* the board with the given nine squares, written from square i on
BoardOf(board, squares, i) ==
  IF i > Len(squares) THEN board
  ELSE BoardOf(set_board_square(board, i - 1, squares[i]), squares, i + 1)

\* the boards with nine squares of the given rows and a mover field of the
\* given values, built as get_initial_board builds its board
BoardsOf(rows, players) ==
  {set_board_player(BoardOf(Zero64, squares, 1), player) :
     squares \in rows, player \in players}

InitCanon ==
  /\ TraversalIdle
  /\ pc \in {"rotate_board", "normalize_board"}
  /\ arg \in BoardsOf(CanonSquares, {ORANGE, BLUE})
  /\ res = None

ApplyRotate ==
  /\ pc = "rotate_board"
  /\ res = None
  /\ res' = <<rotate_board(arg)>>
  /\ UNCHANGED <<visited, to_visit, pc, iter, parents, parent_is_winner, generated,
                 expanded, best, scan, start, arg>>

ApplyNormalize ==
  /\ pc = "normalize_board"
  /\ res = None
  /\ res' = <<normalize_board(arg)>>
  /\ UNCHANGED <<visited, to_visit, pc, iter, parents, parent_is_winner, generated,
                 expanded, best, scan, start, arg>>

NextCanon == ApplyRotate \/ ApplyNormalize

SpecCanon == InitCanon /\ [][NextCanon]_vars

\* nine equal squares of every contents used, and the rows of different
\* squares
CodecSquares ==
  {[i \in 1..9 |-> value] : value \in SquareFills \cup {EMPTY}} \cup MixedSquares

InitCodec ==
  /\ TraversalIdle
  /\ \E boards \in {BoardsOf(CodecSquares, {EMPTY, ORANGE, BLUE})} :
       \/ /\ pc = "set_board_square"
          /\ arg \in [board : boards, position : 0..8, square : Squares]
       \/ /\ pc = "set_board_player"
          /\ arg \in [board : boards, color : {ORANGE, BLUE}]
  /\ res = None

ApplySetSquare ==
  /\ pc = "set_board_square"
  /\ res = None
  /\ res' = <<set_board_square(arg.board, arg.position, arg.square)>>
  /\ UNCHANGED <<visited, to_visit, pc, iter, parents, parent_is_winner, generated,
                 expanded, best, scan, start, arg>>

ApplySetPlayer ==
  /\ pc = "set_board_player"
  /\ res = None
  /\ res' = <<set_board_player(arg.board, arg.color)>>
  /\ UNCHANGED <<visited, to_visit, pc, iter, parents, parent_is_winner, generated,
                 expanded, best, scan, start, arg>>

NextCodec == ApplySetSquare \/ ApplySetPlayer

SpecCodec == InitCodec /\ [][NextCodec]_vars

-----------------------------------------------------------------------------
(* Properties                                                              *)

BetterApplied == pc = "is_first_state_better" /\ res # None
PlayApplied == pc = "can_play_at" /\ res # None

\* the record of board was made by the terminal branch of main
IsTerminalRecord(board) == board \in DOMAIN visited /\ board \notin DOMAIN generated

IsWin(board) == board \in DOMAIN visited /\ visited[board].outcome = -1

\* k == childCount on a record made by the expansion branch
IsLoss(board) ==
  /\ board \in DOMAIN generated
  /\ visited[board].outcome = visited[board].children

\* a record no wave modifies: Win, k == childCount, or terminal
IsFinal(board) ==
  /\ board \in DOMAIN visited
  /\ (visited[board].outcome = -1 \/ visited[board].outcome = visited[board].children)

\* the entries pushed for board when it was expanded
SuccessorsOf(board) == {generated[board][i] : i \in 1..Len(generated[board])}

AllSuccessorsWin(board) ==
  \A i \in 1..Len(generated[board]) : IsWin(generated[board][i])

AllSuccessorsFinal(board) ==
  \A i \in 1..Len(generated[board]) : IsFinal(generated[board][i])

NoEntryFrom(board) == \A i \in 1..Len(to_visit) : to_visit[i][2] # Some(board)

\* the record of board is what it is when the queue runs empty: every entry
\* pushed for it has been dequeued, every successor's record is final and
\* no wave is on its way to it
Settled(board) ==
  /\ board \in DOMAIN generated
  /\ pc = "propagate" => ~Contains(parents, board)
  /\ AllSuccessorsFinal(board)
  /\ NoEntryFrom(board)

\* no step changes the outcome of a final record
FinalStays ==
  [][\A board \in DOMAIN visited :
       IsFinal(board) => visited'[board].outcome = visited[board].outcome]_vars

\* no step changes the outcome of a settled record, and it stays settled
SettledStays ==
  [][\A board \in DOMAIN generated :
       (\/ visited'[board].outcome # visited[board].outcome
        \/ (\E i \in 1..Len(to_visit') : to_visit'[i][2] = Some(board))
        \/ (pc' = "propagate" /\ Contains(parents', board)))
       => ~Settled(board)]_vars

\* C1 (as stated): every state in the predecessor list of a terminal record
\* has outcome Win, whichever entry of the terminal state recorded it. The
\* statement is made of the predecessors whose records are settled, which
\* are the records the traversal ends with when its queue runs empty
\* (FinalStays, SettledStays).
C1_AsStated ==
  \A board \in DOMAIN visited :
    IsTerminalRecord(board) =>
      \A i \in 1..Len(visited[board].parents) :
        LET parent == visited[board].parents[i]
        IN IsWin(parent) \/ ~Settled(parent)

\* C2: in every state of the traversal, a Win record has a successor whose
\* record is terminal or has k == childCount, and a non-terminal record with
\* k == childCount has every generated successor recorded with outcome Win.
C2_Sound ==
  \A board \in DOMAIN visited :
    /\ IsWin(board) =>
         /\ board \in DOMAIN generated
         /\ \E successor \in SuccessorsOf(board) :
              IsTerminalRecord(successor) \/ IsLoss(successor)
    /\ IsLoss(board) => AllSuccessorsWin(board)

\* a Win record whose Loss successor has children, next to a Win record
\* with a terminal successor
C2_Witness ==
  /\ \E board \in DOMAIN visited :
       /\ IsWin(board)
       /\ \E successor \in SuccessorsOf(board) :
            IsLoss(successor) /\ visited[successor].children > 0
  /\ \E board \in DOMAIN visited :
       IsWin(board) /\ \E successor \in SuccessorsOf(board) : IsTerminalRecord(successor)

\* C3 (as stated): a non-terminal record with childCount > 0 all of whose
\* successors have outcome Win has k == childCount, and a record with a
\* successor that is Loss has outcome Win. The statement is made of the
\* settled records, which are the records the traversal ends with when its
\* queue runs empty (FinalStays, SettledStays), and of the Loss successors
\* that have children.
C3_AsStated ==
  \A board \in DOMAIN generated :
    /\ (/\ visited[board].children > 0
        /\ visited[board].outcome # visited[board].children
        /\ AllSuccessorsWin(board))
       => ~Settled(board)
    /\ (/\ ~IsWin(board)
        /\ \E successor \in SuccessorsOf(board) :
             IsLoss(successor) /\ visited[successor].children > 0)
       => ~Settled(board)

\* the mover of board has a placement that completes a triple
HasWinningPlacement(board) ==
  /\ get_winner(board) = EMPTY
  /\ \E placed \in {Successors(board).placed} :
       \E i \in 1..Len(placed) :
         get_winner(placed[i].board) = get_board_player(board)

\* C4 (as stated): started from a state in which the mover has a placement
\* that completes a triple, find_best_move returns a successor of the start
\* whose record has outcome Win.
C4_AsStated ==
  (pc = "done" /\ HasWinningPlacement(start)) =>
    /\ best # None
    /\ best[1] \in SuccessorsOf(start)
    /\ best[3] = -1

\* C4: started from a state in which the mover has a placement that
\* completes a triple, find_best_move returns a successor of the start whose
\* record has no children and outcome 0, once such a successor is recorded.
C4_ReturnsChildless ==
  (/\ pc = "done"
   /\ HasWinningPlacement(start)
   /\ \E successor \in SuccessorsOf(start) : IsTerminalRecord(successor))
  => /\ best # None
     /\ best[1] \in SuccessorsOf(start)
     /\ best[2] = 0
     /\ best[3] = 0

\* find_best_move has returned for a start with a winning placement, with
\* records of successors that have children among those it looked at
C4_Witness ==
  /\ pc = "done"
  /\ HasWinningPlacement(start)
  /\ best # None
  /\ \E successor \in SuccessorsOf(start) : IsTerminalRecord(successor)
  /\ \E successor \in SuccessorsOf(start) :
       successor \in DOMAIN visited /\ visited[successor].children > 0

\* C5 (as stated): a candidate with no children is never preferred over one
\* with children; otherwise Win is preferred over not Win; otherwise the lower
\* counter is preferred.
C5_AsStated ==
  BetterApplied =>
    LET f == arg.first
        s == arg.second
    IN /\ (f[1] = 0 /\ s[1] > 0) => res[1] = FALSE
       /\ (f[1] > 0 /\ s[1] > 0 /\ f[2] = -1 /\ s[2] # -1) => res[1] = TRUE
       /\ (f[1] > 0 /\ s[1] > 0 /\ f[2] # -1 /\ s[2] # -1 /\ f[2] < s[2]) => res[1] = TRUE

\* C5 (amended): nothing is preferred over a best without children and a
\* candidate without children is preferred over a best with children; otherwise
\* anything is preferred over a best that is Win and a Win candidate is never
\* preferred over a best that is not Win; otherwise the higher counter is
\* preferred, and on equal counters the smaller number of children.
C5_Comparator ==
  BetterApplied =>
    LET f == arg.first
        s == arg.second
        both == f[1] > 0 /\ s[1] > 0
    IN /\ s[1] = 0 => res[1] = FALSE
       /\ (f[1] = 0 /\ s[1] > 0) => res[1] = TRUE
       /\ (both /\ s[2] = -1) => res[1] = TRUE
       /\ (both /\ s[2] # -1 /\ f[2] = -1) => res[1] = FALSE
       /\ (both /\ s[2] # -1 /\ f[2] # -1 /\ f[2] > s[2]) => res[1] = TRUE
       /\ (both /\ s[2] # -1 /\ f[2] # -1 /\ f[2] < s[2]) => res[1] = FALSE
       /\ (both /\ s[2] # -1 /\ f[2] = s[2]) => (res[1] = (f[1] < s[1]))

\* a candidate without children was preferred over a best with children
C5_Witness ==
  /\ BetterApplied
  /\ arg.first[1] = 0
  /\ arg.second[1] > 0
  /\ res[1] = TRUE

\* C6 (as stated): can_play_at is false exactly when the slot of the queried
\* size is non-empty, whatever the other slots hold.
C6_AsStated ==
  PlayApplied => (res[1] = FALSE <=> get_color(arg.square, arg.size) # EMPTY)

\* C6 (amended): can_play_at is false exactly when the slot of the queried size
\* or a slot of a larger size is non-empty, whatever colour bits they hold and
\* whatever the smaller slots hold.
C6_SlotOrLarger ==
  PlayApplied =>
    (res[1] = FALSE <=>
       \E size \in Sizes : size >= arg.size /\ get_color(arg.square, size) # EMPTY)

\* the queried slot is empty, a larger one is not, and the answer was false
C6_Witness ==
  /\ PlayApplied
  /\ get_color(arg.square, arg.size) = EMPTY
  /\ \E size \in Sizes : size > arg.size /\ get_color(arg.square, size) # EMPTY
  /\ res[1] = FALSE

\* C7: can_play_at is false whenever the top figure of the square has the
\* queried size or a larger one, and true when the square is empty or its top
\* figure is strictly smaller.
C7_TopFigureBlocks ==
  PlayApplied =>
    /\ get_top_figure(arg.square) >= arg.size => res[1] = FALSE
    /\ get_top_figure(arg.square) < arg.size => res[1] = TRUE

\* a small piece was refused on a square that holds only a large one
C7_Witness ==
  /\ PlayApplied
  /\ arg.square = LARGE * ORANGE
  /\ arg.size = SMALL
  /\ res[1] = FALSE

\* the figure on top of pos is the mover's and lifting it leaves a triple
Pinned(board, pos) ==
  /\ get_top_color(board, pos) = get_board_player(board)
  /\ LET square == get_board_square(board, pos)
     IN get_winner(set_board_square(board, pos, square - get_top_figure(square))) # EMPTY

\* the relocations (pos, target_pos) of the mover's top figures that are
\* not pinned, onto squares the figure can be played at
FreeRelocations(board) ==
  LET free == {pos \in 0..8 : /\ get_top_color(board, pos) = get_board_player(board)
                              /\ ~Pinned(board, pos)}
  IN {m \in free \X (0..8) :
        /\ m[1] # m[2]
        /\ can_play_at(get_board_square(board, m[2]),
                       get_figure_size(get_top_figure(get_board_square(board, m[1]))))}

\* C8: after every expansion, for the state expanded and every cell whose top figure is the
\* mover's, if the board without that figure has a complete triple then no
\* entry pushed by add_moved_items moves that figure, and the count of
\* children is the placements plus the relocations of figures not pinned.
C8_PinnedStays ==
  (pc = "loop" /\ expanded # None) =>
    /\ \A pos \in 0..8 :
         Pinned(expanded.board, pos) =>
           \A i \in 1..Len(expanded.moved) : expanded.moved[i].pos # pos
    /\ expanded.num_of_children
         = Len(expanded.placed) + Cardinality(FreeRelocations(expanded.board))

\* a state was expanded in which a top figure of the mover is pinned
C8_Witness ==
  /\ expanded # None
  /\ \E pos \in 0..8 : Pinned(expanded.board, pos)
  /\ expanded.moved # <<>>

\* C9: once a record has outcome Win, no step of the traversal and no wave
\* changes it.
C9_WinAbsorbing ==
  [][\A board \in DOMAIN visited :
       visited[board].outcome = -1 =>
         board \in DOMAIN visited' /\ visited'[board].outcome = -1]_vars

\* a wave in the losing role is about to meet a record that is Win
C9_Witness ==
  /\ pc = "propagate"
  /\ ~parent_is_winner
  /\ \E i \in 1..Len(parents) : IsWin(parents[i])

\* C10: every record that is not Win has 0 <= k <= childCount.
C10_CounterBounded ==
  \A board \in DOMAIN visited :
    visited[board].outcome # -1 =>
      /\ 0 <= visited[board].outcome
      /\ visited[board].outcome <= visited[board].children

\* a wave in the losing role holds the same predecessor twice and takes its
\* counter to its child count
C10_Witness ==
  /\ pc = "propagate"
  /\ ~parent_is_winner
  /\ \E i, j \in 1..Len(parents) :
       /\ i < j
       /\ parents[i] = parents[j]
       /\ visited[parents[i]].outcome # -1
       /\ visited[parents[i]].outcome + 2 = visited[parents[i]].children

\* C11: every state in a predecessor list and every state handed to a wave
\* has a record of its own, and the wave about to run finds the record of
\* each of its states: the "found parent that hasn't its own record" failure
\* is not hit.
C11_ParentsRecorded ==
  /\ \A board \in DOMAIN visited :
       \A i \in 1..Len(visited[board].parents) :
         visited[board].parents[i] \in DOMAIN visited
  /\ pc = "propagate" =>
       /\ \A i \in 1..Len(parents) : parents[i] \in DOMAIN visited
       /\ modify_parents(parents, parent_is_winner, visited).ok

\* a wave of two states is about to run while some record lists two
\* predecessors
C11_Witness ==
  /\ pc = "propagate"
  /\ Len(parents) >= 2
  /\ \E board \in DOMAIN visited : Len(visited[board].parents) >= 2

\* board is the least of its four rotations
Canonical(board) == normalize_board(board) = board

\* the three boards rotate_board makes of board in turn
Rotations(board) ==
  {rotate_board(board), rotate_board(rotate_board(board)),
   rotate_board(rotate_board(rotate_board(board)))}

\* the board a placement of the expanded state makes, before it is normalized
PlacedBoard(item) ==
  set_board_square(expanded.board, item.target_pos,
                   get_board_square(expanded.board, item.target_pos)
                   + get_board_player(expanded.board) * item.size)

\* C12: every key of the table, every queued state and every recorded
\* predecessor equals its own normalize_board value, and no two keys are
\* rotations of one another (a rotation keeps the mover). A queued state is
\* looked at when it is pushed and when it is dequeued, and the whole table
\* and the whole queue are looked at when the traversal has ended: keys and
\* predecessor lists only grow, and a state leaves the queue as a key.
C12_Canonical ==
  /\ to_visit # <<>> => Canonical(Head1)
  /\ (pc = "loop" /\ expanded # None) =>
       /\ \A i \in 1..Len(expanded.placed) : Canonical(expanded.placed[i].board)
       /\ \A i \in 1..Len(expanded.moved) : Canonical(expanded.moved[i].board)
  /\ pc = "done" =>
       /\ \A i \in 1..Len(to_visit) : Canonical(to_visit[i][1])
       /\ \A board \in DOMAIN visited :
            /\ Canonical(board)
            /\ \A i \in 1..Len(visited[board].parents) :
                 Canonical(visited[board].parents[i])
            /\ \A rotated \in Rotations(board) :
                 rotated \in DOMAIN visited => rotated = board

\* the traversal has ended and its last expansion pushed a placement whose
\* board normalize_board had to rotate
C12_Witness ==
  /\ pc = "done"
  /\ to_visit # <<>>
  /\ expanded # None
  /\ \E i \in 1..Len(expanded.placed) : ~Canonical(PlacedBoard(expanded.placed[i]))

Colors == {ORANGE, BLUE}

\* the squares 0..8 of board
SquaresOf(board) == <<>> \o [i \in 1..9 |-> get_board_square(board, i - 1)]

\* the number of the given squares that hold a figure of color and size
CountIn(squares, color, size) ==
  Cardinality({i \in 1..Len(squares) : get_color(squares[i], size) = color})

\* the number of figures of every colour and size on the given squares
CountsIn(squares) ==
  [key \in Colors \X Sizes |-> CountIn(squares, key[1], key[2])]

PieceCounts(board) == CountsIn(SquaresOf(board))

\* no slot of the squares holds both colour bits
NoMixedSlot(squares) ==
  \A i \in 1..Len(squares) : \A size \in Sizes : get_color(squares[i], size) # 3

\* at most two figures of every size and colour, no slot with both colour bits
Conserved(board) ==
  /\ \A key \in Colors \X Sizes : PieceCounts(board)[key] <= Reserve
  /\ NoMixedSlot(SquaresOf(board))

\* the counts of before with one more figure of color and size
OneMore(before, color, size) ==
  [key \in Colors \X Sizes |->
     IF key = <<color, size>> THEN before[key] + 1 ELSE before[key]]

\* C13: every state of the queue keeps at most two figures of every size
\* and colour and no slot with both colour bits; an entry pushed for a
\* relocation has the counts of the state expanded, and an entry pushed for
\* a placement has one more figure of the mover in the size placed and the
\* other counts unchanged. A state is looked at when it is pushed and when
\* it is dequeued.
C13_PiecesConserved ==
  /\ to_visit # <<>> => Conserved(Head1)
  /\ (pc = "loop" /\ expanded # None) =>
       /\ \A i \in 1..Len(expanded.placed) :
            /\ Conserved(expanded.placed[i].board)
            /\ PieceCounts(expanded.placed[i].board)
                 = OneMore(PieceCounts(expanded.board),
                           get_board_player(expanded.board), expanded.placed[i].size)
       /\ \A i \in 1..Len(expanded.moved) :
            /\ Conserved(expanded.moved[i].board)
            /\ PieceCounts(expanded.moved[i].board) = PieceCounts(expanded.board)

\* the state expanded has both kinds of move while one size of its mover is
\* all on the board
C13_Witness ==
  /\ pc = "loop"
  /\ expanded # None
  /\ expanded.placed # <<>>
  /\ expanded.moved # <<>>
  /\ \E size \in Sizes :
       PieceCounts(expanded.board)[<<get_board_player(expanded.board), size>>] = Reserve

\* C14: the board normalize_board returns is returned unchanged by a second
\* normalize_board, is the board normalize_board returns for the rotated
\* input, is the input or one of its three rotations, and has the mover of
\* the input.
C14_NormalizeIdempotent ==
  (pc = "normalize_board" /\ res # None) =>
    /\ normalize_board(res[1]) = res[1]
    /\ normalize_board(rotate_board(arg)) = res[1]
    /\ res[1] \in {arg} \cup Rotations(arg)
    /\ get_board_player(res[1]) = get_board_player(arg)

\* normalize_board returned a rotation of a board that is not its own least
\* rotation
C14_Witness ==
  /\ pc = "normalize_board"
  /\ res # None
  /\ res[1] # arg
  /\ rotate_board(arg) # res[1]

\* the square of the input that rotate_board moves to position
RingSource(position) ==
  CASE position \in 1..6 -> position + 2
    [] position = 7 -> 1
    [] position = 8 -> 2

\* C15: four rotate_board calls in a row return the board they started
\* from, and one rotate_board keeps the mover and the centre square and
\* gives every ring square the contents of the ring square two places on,
\* which is a permutation of the eight ring squares.
C15_RotateOrderFour ==
  (pc = "rotate_board" /\ res # None) =>
    /\ rotate_board(rotate_board(rotate_board(res[1]))) = arg
    /\ get_board_player(res[1]) = get_board_player(arg)
    /\ get_board_square(res[1], 0) = get_board_square(arg, 0)
    /\ \A position \in 1..8 :
         get_board_square(res[1], position) = get_board_square(arg, RingSource(position))
    /\ {RingSource(position) : position \in 1..8} = 1..8

\* a board with eight different ring squares and a figure in the centre
\* was rotated
C15_Witness ==
  /\ pc = "rotate_board"
  /\ res # None
  /\ get_board_square(arg, 0) # EMPTY
  /\ Cardinality({get_board_square(arg, position) : position \in 1..8}) = 8
  /\ res[1] # arg

\* C16: the square read back at the position set_board_square wrote is the
\* square written, whatever the position held; the other squares and the
\* mover are those of the input; the mover read back after set_board_player
\* is the colour written and the nine squares are those of the input.
C16_CodecRoundTrip ==
  /\ (pc = "set_board_square" /\ res # None) =>
       /\ get_board_square(res[1], arg.position) = arg.square
       /\ \A position \in 0..8 :
            position # arg.position =>
              get_board_square(res[1], position) = get_board_square(arg.board, position)
       /\ get_board_player(res[1]) = get_board_player(arg.board)
  /\ (pc = "set_board_player" /\ res # None) =>
       /\ get_board_player(res[1]) = arg.color
       /\ \A position \in 0..8 :
            get_board_square(res[1], position) = get_board_square(arg.board, position)

\* a square that held all six bits was overwritten with the empty square on
\* a board whose other squares and mover are not empty
C16_Witness ==
  /\ pc = "set_board_square"
  /\ res # None
  /\ get_board_square(arg.board, arg.position) = SQUARE_MASK
  /\ arg.square = EMPTY
  /\ get_board_player(arg.board) = BLUE
  /\ arg.position = 8

\* the colours that have a complete triple on board
TripleColors(board) ==
  {is_triple(board, triples[i]) : i \in 1..Len(triples)} \ {EMPTY}

\* C17: in a traversal started from a state without a complete triple,
\* every state pushed has complete triples of the player who just moved
\* only, every state dequeued has complete triples of the opponent of its
\* mover only, so that get_winner of it is empty or that opponent, and the
\* traversal does not stop on a failed assertion.
C17_OnlyLastMoverWins ==
  get_winner(start) = EMPTY =>
    /\ pc # "panic"
    /\ to_visit # <<>> =>
         /\ TripleColors(Head1) \subseteq {get_opponent(get_board_player(Head1))}
         /\ get_winner(Head1) \in {EMPTY, get_opponent(get_board_player(Head1))}
    /\ (pc = "loop" /\ expanded # None) =>
         /\ \A i \in 1..Len(expanded.placed) :
              TripleColors(expanded.placed[i].board)
                \subseteq {get_board_player(expanded.board)}
         /\ \A i \in 1..Len(expanded.moved) :
              TripleColors(expanded.moved[i].board)
                \subseteq {get_board_player(expanded.board)}

\* the state expanded has a placement and a relocation that complete a
\* triple, and a figure that stays where it is because lifting it would
\* uncover one
C17_Witness ==
  /\ get_winner(start) = EMPTY
  /\ pc = "loop"
  /\ expanded # None
  /\ \E i \in 1..Len(expanded.placed) : get_winner(expanded.placed[i].board) # EMPTY
  /\ \E i \in 1..Len(expanded.moved) : get_winner(expanded.moved[i].board) # EMPTY
  /\ \E pos \in 0..8 : Pinned(expanded.board, pos)

\* C18: a propagation that has a wave to run reaches the empty wave, after
\* which main goes on with its loop.
C18_WavesEnd == (pc = "propagate") ~> (pc # "propagate")

\* the predecessors recorded for the states of a set
PredecessorsOf(boards) ==
  UNION {{visited[board].parents[i] : i \in 1..Len(visited[board].parents)} :
           board \in boards \cap DOMAIN visited}

\* board is its own predecessor four moves back
OnRing(board) ==
  board \in PredecessorsOf(PredecessorsOf(PredecessorsOf(PredecessorsOf({board}))))

\* a wave is about to change a record that lies on a ring of predecessors
C18_Witness ==
  /\ pc = "propagate"
  /\ \E i \in 1..Len(parents) : ~IsWin(parents[i]) /\ OnRing(parents[i])

ParentEntries ==
  UNION {{<<board, i>> : i \in 1..Len(visited[board].parents)} : board \in DOMAIN visited}

\* the number of occurrences of board in the predecessor lists of all records
Recorded(board, entries) ==
  Cardinality({entry \in entries : visited[entry[1]].parents[entry[2]] = board})

\* the number of pending queue entries whose parent is board
Pending(board) ==
  Cardinality({i \in 1..Len(to_visit) : to_visit[i][2] = Some(board)})

\* C20: between two iterations of the loop the child count of every expanded
\* record is the number of its occurrences in the predecessor lists plus the
\* number of queue entries it is the parent of, each counted as often as it
\* is there; no step changes the child count of a record or the successors
\* that were pushed for it.
C20_EdgesAccounted ==
  /\ [](pc = "loop" =>
          \A entries \in {ParentEntries} :
            \A board \in DOMAIN generated :
              visited[board].children = Recorded(board, entries) + Pending(board))
  /\ [][\A board \in DOMAIN visited :
          /\ board \in DOMAIN visited'
          /\ visited'[board].children = visited[board].children
          /\ board \in DOMAIN generated =>
               board \in DOMAIN generated' /\ generated'[board] = generated[board]]_vars

\* an expanded record stands twice in the predecessor list of one successor
\* while other successors of it are still in the queue
C20_Witness ==
  /\ pc = "loop"
  /\ \E board \in DOMAIN generated :
       /\ Pending(board) > 0
       /\ \E child \in DOMAIN visited :
            Cardinality({i \in 1..Len(visited[child].parents) :
                           visited[child].parents[i] = board}) >= 2

====
